---- MODULE Spec2Model ----
(***************************************************************************)
(* Hybrid recipe search: the Search Service (src/server.py) over its       *)
(* vector index, and the relational reconciliation adapter                 *)
(* (recipes/chromadb_client.py, RecipeViewSet.semantic_search).            *)
(*                                                                         *)
(* Text is modelled as a sequence of one-character strings, so that        *)
(* strip, split, join, substring search and the JSON flattening and        *)
(* reconstruction are computed character by character as the code does.    *)
(***************************************************************************)
EXTENDS Integers, Sequences, FiniteSets, TLC

VARIABLES index, resp, db, view

vars == <<index, resp, db, view>>

\* Python's None, and the mark of a key that a dict does not hold.
\* Both are written as one-token texts that no real text equals.
None == <<"<None>">>
Missing == <<"<missing>">>

----------------------------------------------------------------------------
\* Bounds of the model.

\* Most documents the index holds.
MaxDocs == 2
\* Most recipes in one /insert request.
MaxBatch == 2
\* Largest limit a request carries (the smallest is MinLimit).
MaxLimit == 2
\* Most hits in a Search Service answer handed to the adapter.
MaxHits == 2

MinLimit == 0 - 1

----------------------------------------------------------------------------
\* Python str methods, on sequences of characters.

IsSpace(c) == c = " "

RECURSIVE LStrip(_)
LStrip(s) == IF s # <<>> /\ IsSpace(Head(s)) THEN LStrip(Tail(s)) ELSE s

RECURSIVE RStrip(_)
RStrip(s) ==
    IF s # <<>> /\ IsSpace(s[Len(s)]) THEN RStrip(SubSeq(s, 1, Len(s) - 1)) ELSE s

\* str.strip()
Strip(s) == RStrip(LStrip(s))

\* Does t occur in s at position i?
OccursAt(s, t, i) == i + Len(t) - 1 <= Len(s) /\ SubSeq(s, i, i + Len(t) - 1) = t

\* str.split(sep) for a non-empty separator: "".split(",") is [""].
RECURSIVE SplitFrom(_, _, _, _)
SplitFrom(s, sep, i, cur) ==
    IF i > Len(s) THEN <<cur>>
    ELSE IF OccursAt(s, sep, i)
         THEN <<cur>> \o SplitFrom(s, sep, i + Len(sep), <<>>)
         ELSE SplitFrom(s, sep, i + 1, Append(cur, s[i]))

Split(s, sep) == SplitFrom(s, sep, 1, <<>>)

\* sep.join(parts)
RECURSIVE Join(_, _)
Join(parts, sep) ==
    IF parts = <<>> THEN <<>>
    ELSE IF Len(parts) = 1 THEN parts[1]
    ELSE parts[1] \o sep \o Join(Tail(parts), sep)

\* str.removeprefix / str.removesuffix
RemovePrefix(s, p) == IF OccursAt(s, p, 1) THEN SubSeq(s, Len(p) + 1, Len(s)) ELSE s

RemoveSuffix(s, p) ==
    IF Len(p) <= Len(s) /\ SubSeq(s, Len(s) - Len(p) + 1, Len(s)) = p
    THEN SubSeq(s, 1, Len(s) - Len(p)) ELSE s

\* x in list
InList(x, list) == \E i \in 1..Len(list) : list[i] = x

\* [f(x) for x in list]
MapStrip(list) == [i \in 1..Len(list) |-> Strip(list[i])]

\* list[:n] of Python, n of either sign.
PySlice(list, n) ==
    IF n >= 0 THEN SubSeq(list, 1, IF n < Len(list) THEN n ELSE Len(list))
    ELSE SubSeq(list, 1, Len(list) + n)

----------------------------------------------------------------------------
\* json.dumps and json.loads, for the texts the model writes: objects whose
\* values are strings or objects, over the characters of the recipes below
\* (no digit, bracket or literal occurs in them, and the only escapes that
\* can follow a backslash are the quote and the backslash).

\* The body of a JSON string: quote and backslash are escaped.
RECURSIVE JsonEscape(_)
JsonEscape(s) ==
    IF s = <<>> THEN <<>>
    ELSE (IF Head(s) \in {"\"", "\\"} THEN <<"\\", Head(s)>> ELSE <<Head(s)>>)
         \o JsonEscape(Tail(s))

JsonQuote(s) == <<"\"">> \o JsonEscape(s) \o <<"\"">>

\* json.dumps(d, ensure_ascii=False) of a dict of str to str, d a sequence
\* of <<key, value>> in insertion order.
JsonDumps(d) ==
    <<"{">>
    \o Join([i \in 1..Len(d) |-> JsonQuote(d[i][1]) \o <<":", " ">> \o JsonQuote(d[i][2])],
            <<",", " ">>)
    \o <<"}">>

JsonFail == [ok |-> FALSE, val |-> <<>>, pos |-> 0]

RECURSIVE SkipWs(_, _)
SkipWs(s, i) == IF i <= Len(s) /\ IsSpace(s[i]) THEN SkipWs(s, i + 1) ELSE i

\* The characters after an opening quote, up to the closing one.
RECURSIVE ScanString(_, _, _)
ScanString(s, j, acc) ==
    IF j > Len(s) THEN JsonFail
    ELSE IF s[j] = "\"" THEN [ok |-> TRUE, val |-> acc, pos |-> j + 1]
    ELSE IF s[j] = "\\"
         THEN IF j + 1 <= Len(s) /\ s[j + 1] \in {"\"", "\\"}
              THEN ScanString(s, j + 2, Append(acc, s[j + 1]))
              ELSE JsonFail
    ELSE ScanString(s, j + 1, Append(acc, s[j]))

\* dict[k] = v: a key already present keeps its place and takes the new value.
DictPut(d, k, v) ==
    IF \E i \in 1..Len(d) : d[i][1] = k
    THEN [i \in 1..Len(d) |-> IF d[i][1] = k THEN <<k, v>> ELSE d[i]]
    ELSE Append(d, <<k, v>>)

RECURSIVE ParseValue(_, _)
RECURSIVE ParseMembers(_, _, _)

\* A value is <<"str", text>> or <<"obj", members>>.
ParseObject(s, i) ==
    LET j == SkipWs(s, i + 1)
    IN  IF j > Len(s) THEN JsonFail
        ELSE IF s[j] = "}" THEN [ok |-> TRUE, val |-> <<"obj", <<>>>>, pos |-> j + 1]
        ELSE ParseMembers(s, j, <<>>)

ParseMembers(s, j, acc) ==
    IF j > Len(s) \/ s[j] # "\"" THEN JsonFail
    ELSE LET k  == ScanString(s, j + 1, <<>>)
             j2 == SkipWs(s, k.pos)
             j3 == SkipWs(s, j2 + 1)
             v  == ParseValue(s, j3)
             j4 == SkipWs(s, v.pos)
             d  == DictPut(acc, k.val, v.val)
         IN  IF ~k.ok THEN JsonFail
             ELSE IF j2 > Len(s) \/ s[j2] # ":" THEN JsonFail
             ELSE IF ~v.ok THEN JsonFail
             ELSE IF j4 > Len(s) THEN JsonFail
             ELSE IF s[j4] = "}" THEN [ok |-> TRUE, val |-> <<"obj", d>>, pos |-> j4 + 1]
             ELSE IF s[j4] = "," THEN ParseMembers(s, SkipWs(s, j4 + 1), d)
             ELSE JsonFail

ParseValue(s, i) ==
    IF i > Len(s) THEN JsonFail
    ELSE IF s[i] = "\""
         THEN LET r == ScanString(s, i + 1, <<>>)
              IN  IF r.ok THEN [ok |-> TRUE, val |-> <<"str", r.val>>, pos |-> r.pos]
                  ELSE JsonFail
    ELSE IF s[i] = "{" THEN ParseObject(s, i)
    ELSE JsonFail

\* json.loads(s): [ok, val]; ok is FALSE where Python raises JSONDecodeError.
JsonLoads(s) ==
    LET v == ParseValue(s, SkipWs(s, 1))
    IN  IF v.ok /\ SkipWs(s, v.pos) > Len(s) THEN v ELSE JsonFail

\* "{" + x + "}" raises TypeError when x is None.
WrapBraces(x) == <<"{">> \o x \o <<"}">>

----------------------------------------------------------------------------
\* The Search Service (src/server.py): the document encoder.

Unknown == <<"U", "n", "k", "n", "o", "w", "n">>

\* Recipes a client may send to /insert (RecipeInput). A dict is a sequence
\* of <<key, value>>; calory may be None or empty, taken_time and images
\* may be empty lists.
RecipeA ==
    [foodname |-> <<"a">>,
     ingredients |-> << <<<<"a">>, <<"c">>>> >>,
     canonical |-> << <<"a">>, <<"c">> >>,
     recipe |-> << <<"c">> >>,
     calory |-> <<>>,
     taken_time |-> <<>>,
     images |-> <<>>,
     index |-> 1,
     questions |-> <<>>]

RecipeC ==
    [foodname |-> <<"c">>,
     ingredients |-> << <<<<"a">>, <<"}", "\"">>>>, <<<<"c", " ">>, <<"\\", ",">>>> >>,
     canonical |-> << <<" ", "a">> >>,
     recipe |-> << <<"a">>, <<"c">> >>,
     calory |-> <<"c">>,
     taken_time |-> << <<"a">>, <<"c">> >>,
     images |-> << <<"a">>, <<"c">> >>,
     index |-> 2,
     questions |-> << <<<<"a">>, <<"c">>>> >>]

RecipeA2 ==
    [foodname |-> <<"a">>,
     ingredients |-> <<>>,
     canonical |-> <<>>,
     recipe |-> <<>>,
     calory |-> None,
     taken_time |-> <<>>,
     images |-> << <<"c">> >>,
     index |-> 1,
     questions |-> <<>>]

\* A recipe whose name is blank: foodname is any str.
RecipeBlank ==
    [foodname |-> <<" ">>,
     ingredients |-> <<>>,
     canonical |-> <<>>,
     recipe |-> <<>>,
     calory |-> <<>>,
     taken_time |-> <<>>,
     images |-> <<>>,
     index |-> 3,
     questions |-> <<>>]

RecipeInputs == {RecipeA, RecipeC, RecipeA2, RecipeBlank}

\* Python truth of a str, a list or None.
Truthy(x) == x # None /\ x # <<>>

\* The page_content template: the name line, then the steps line.
PageContent(foodname, instructions_str) ==
    <<"N", ":">> \o foodname \o <<"R", ":">> \o instructions_str

\* A plausible slip: the flattened questions are stored under
\* detailed_ingredients and the flattened ingredients under questions.
process_recipe_swapped(recipe) ==
    LET ingredients_str ==
            RemoveSuffix(RemovePrefix(JsonDumps(recipe.ingredients), <<"{">>), <<"}">>)
        questions_str ==
            RemoveSuffix(RemovePrefix(JsonDumps(recipe.questions), <<"{">>), <<"}">>)
        instructions_str == Join(recipe.recipe, <<" ">>)
        images_str ==
            IF Truthy(recipe.images) THEN Join(recipe.images, <<"|", "|">>) ELSE <<>>
        canonical_str == Join(recipe.canonical, <<",">>)
        time_str == IF Truthy(recipe.taken_time) THEN recipe.taken_time[1] ELSE <<>>
    IN  [page_content |-> PageContent(recipe.foodname, instructions_str),
         metadata |->
            [foodname |-> recipe.foodname,
             calory |-> IF Truthy(recipe.calory) THEN recipe.calory ELSE Unknown,
             index |-> recipe.index,
             images |-> images_str,
             canonical |-> canonical_str,
             taken_time |-> time_str,
             detailed_ingredients |-> questions_str,
             questions |-> ingredients_str]]

\* A plausible slip: taken_time is stored as the list it came as.
process_recipe_listed(recipe) ==
    LET ingredients_str ==
            RemoveSuffix(RemovePrefix(JsonDumps(recipe.ingredients), <<"{">>), <<"}">>)
        questions_str ==
            RemoveSuffix(RemovePrefix(JsonDumps(recipe.questions), <<"{">>), <<"}">>)
        instructions_str == Join(recipe.recipe, <<" ">>)
        images_str ==
            IF Truthy(recipe.images) THEN Join(recipe.images, <<"|", "|">>) ELSE <<>>
        canonical_str == Join(recipe.canonical, <<",">>)
    IN  [page_content |-> PageContent(recipe.foodname, instructions_str),
         metadata |->
            [foodname |-> recipe.foodname,
             calory |-> IF Truthy(recipe.calory) THEN recipe.calory ELSE Unknown,
             index |-> recipe.index,
             images |-> images_str,
             canonical |-> canonical_str,
             taken_time |-> recipe.taken_time,
             detailed_ingredients |-> ingredients_str,
             questions |-> questions_str]]

process_recipe_to_document(recipe) ==
    LET ingredients_str ==
            RemoveSuffix(RemovePrefix(JsonDumps(recipe.ingredients), <<"{">>), <<"}">>)
        questions_str ==
            RemoveSuffix(RemovePrefix(JsonDumps(recipe.questions), <<"{">>), <<"}">>)
        instructions_str == Join(recipe.recipe, <<" ">>)
        images_str ==
            IF Truthy(recipe.images) THEN Join(recipe.images, <<"|", "|">>) ELSE <<>>
        canonical_str == Join(recipe.canonical, <<",">>)
        time_str == IF Truthy(recipe.taken_time) THEN recipe.taken_time[1] ELSE <<>>
    IN  [page_content |-> PageContent(recipe.foodname, instructions_str),
         metadata |->
            [foodname |-> recipe.foodname,
             calory |-> IF Truthy(recipe.calory) THEN recipe.calory ELSE Unknown,
             index |-> recipe.index,
             images |-> images_str,
             canonical |-> canonical_str,
             taken_time |-> time_str,
             detailed_ingredients |-> ingredients_str,
             questions |-> questions_str]]

\* Documents the persisted collection at CHROMA_PATH may already hold when
\* the service opens it, written by another writer of that directory: one
\* whose detailed_ingredients is not the inside of a JSON object, and one
\* without that key.
BadJsonDoc ==
    [page_content |-> <<"N", ":", "c">>,
     metadata |->
        [foodname |-> <<"c">>, calory |-> Unknown, index |-> 1, images |-> <<>>,
         canonical |-> <<"a">>, taken_time |-> <<>>,
         detailed_ingredients |-> <<"a">>, questions |-> <<>>]]

NoIngredientsDoc ==
    [page_content |-> <<"N", ":", "c">>,
     metadata |->
        [foodname |-> Missing, calory |-> Unknown, index |-> 1, images |-> <<>>,
         canonical |-> <<"c">>, taken_time |-> <<>>,
         detailed_ingredients |-> Missing, questions |-> <<>>]]

PersistedCollections == {<<>>, <<BadJsonDoc>>, <<NoIngredientsDoc>>}

\* dict.get(key, default) on a value that may be Missing; get(key) gives None.
Get(v, default) == IF v = Missing THEN default ELSE v

----------------------------------------------------------------------------
\* The vector index (langchain Chroma over the persisted collection). The
\* index is a sequence of [id, doc] in the order the collection returns them.

\* str(uuid4()) for each document: identifiers no stored document has.
RECURSIVE MaxId(_)
MaxId(idx) ==
    IF idx = <<>> THEN 0
    ELSE LET m == MaxId(Tail(idx)) IN IF Head(idx).id > m THEN Head(idx).id ELSE m

\* A plausible slip: the identifier of a document is its position in the
\* batch, so that a later batch reuses the identifiers of an earlier one.
PositionIds(idx, n) == [i \in 1..n |-> i]

FreshIds(idx, n) == [i \in 1..n |-> MaxId(idx) + i]

\* The upsert of the collection: a document whose identifier is stored
\* replaces the stored one, any other is appended.
RECURSIVE Upsert(_, _, _, _)
Upsert(idx, documents, ids, i) ==
    IF i > Len(documents) THEN idx
    ELSE LET e == [id |-> ids[i], doc |-> documents[i]]
             next == IF \E j \in 1..Len(idx) : idx[j].id = ids[i]
                     THEN [j \in 1..Len(idx) |-> IF idx[j].id = ids[i] THEN e ELSE idx[j]]
                     ELSE Append(idx, e)
         IN  Upsert(next, documents, ids, i + 1)

\* A plausible slip: the collection is built anew from the batch
\* (from_documents in place of add_documents), which drops what was stored.
ReplaceCollection(idx, documents, ids, fault) ==
    IF fault # "none" THEN [ok |-> FALSE, index |-> idx]
    ELSE [ok |-> TRUE, index |-> Upsert(<<>>, documents, ids, 1)]

\* db.add_documents(documents, ids): every text is embedded, then one upsert
\* stores all of them; an embedding or storage exception stores none.
AddDocuments(idx, documents, ids, fault) ==
    IF fault # "none" THEN [ok |-> FALSE, index |-> idx]
    ELSE [ok |-> TRUE, index |-> Upsert(idx, documents, ids, 1)]

\* db.get(limit=n): the first n stored documents, unranked.
GetAll(idx, n) == SubSeq(idx, 1, IF n < Len(idx) THEN n ELSE Len(idx))

\* The orders in which an embedding can rank the stored documents.
Rankings(idx) ==
    {p \in [1..Len(idx) -> 1..Len(idx)] : \A i, j \in 1..Len(idx) : p[i] = p[j] => i = j}

\* db.similarity_search_with_score(query, k): the k nearest documents in the
\* order of the ranking, each with its distance (here its rank; smaller is
\* nearer). The collection refuses k <= 0.
SimilaritySearch(idx, k, ranking) ==
    IF k <= 0 THEN [ok |-> FALSE, results |-> <<>>]
    ELSE [ok |-> TRUE,
          results |-> [i \in 1..(IF k < Len(idx) THEN k ELSE Len(idx)) |->
                          [id |-> idx[ranking[i]].id, doc |-> idx[ranking[i]].doc, score |-> i]]]

----------------------------------------------------------------------------
\* The Search Service: authentication and the two endpoints.

\* CHROMA_ACCESS_TOKEN, and what a request may present as its bearer token
\* ("absent": no Authorization header).
CHROMA_ACCESS_TOKEN == "secret"
Tokens == {"absent", "secret", "wrong"}

\* HTTPBearer() with its default auto_error rejects a request that carries no
\* credentials before authenticate runs: with 403 in the releases of the
\* framework that precede the change to 401, with 401 after it.
HTTPBearerMissing == {401, 403}

\* Depends(authenticate): the statuses the request may be refused with; the
\* empty set lets the handler run.
authenticate(token) ==
    IF token = "absent" THEN HTTPBearerMissing
    ELSE IF token # CHROMA_ACCESS_TOKEN THEN {401}
    ELSE {}

\* db.get(limit=330)
GetLimit == 330

Idle == [op |-> "idle"]

\* A refused or failed request: no hits, nothing inserted.
Refusal(op, req, status, calls) ==
    [op |-> op, req |-> req, status |-> status, hits |-> <<>>, inserted |-> 0,
     calls |-> calls, candidates |-> <<>>]

\* A plausible slip: the batch is stored one document at a time, so that a
\* storage failure on the last one leaves the others in the index.
InsertOutcomePerDocument(recipes, fault) ==
    LET documents == [i \in 1..Len(recipes) |-> process_recipe_to_document(recipes[i])]
        ids == FreshIds(index, Len(documents))
        stored == AddDocuments(index, SubSeq(documents, 1, Len(documents) - 1), ids, "none")
    IN  IF recipes = <<>>
        THEN [status |-> 400, index |-> index, inserted |-> 0, calls |-> {}]
        ELSE IF fault = "embed"
        THEN [status |-> 500, index |-> index, inserted |-> 0, calls |-> {"embed"}]
        ELSE IF fault = "store"
        THEN [status |-> 500, index |-> stored.index, inserted |-> 0,
              calls |-> {"embed", "write"}]
        ELSE [status |-> 200, index |-> AddDocuments(index, documents, ids, "none").index,
              inserted |-> Len(documents), calls |-> {"embed", "write"}]

\* A plausible slip: the check for an empty batch is left out.
InsertOutcomeNoEmptyCheck(recipes, fault) ==
    LET documents == [i \in 1..Len(recipes) |-> process_recipe_to_document(recipes[i])]
        ids == FreshIds(index, Len(documents))
        added == AddDocuments(index, documents, ids, fault)
    IN  IF ~added.ok
        THEN [status |-> 500, index |-> added.index, inserted |-> 0, calls |-> {"embed"}]
        ELSE [status |-> 200, index |-> added.index, inserted |-> Len(documents),
              calls |-> {"embed", "write"}]

\* The body of insert_recipes, once the request is authenticated: the status,
\* the index it leaves, the count of its message and the calls it made.
\* fault: what goes wrong inside db.add_documents.
InsertOutcome(recipes, fault) ==
    LET documents == [i \in 1..Len(recipes) |-> process_recipe_to_document(recipes[i])]
        ids == FreshIds(index, Len(documents))
        added == AddDocuments(index, documents, ids, fault)
    IN  IF recipes = <<>>
        THEN [status |-> 400, index |-> index, inserted |-> 0, calls |-> {}]
        ELSE IF ~added.ok
        THEN [status |-> 500, index |-> added.index, inserted |-> 0,
              calls |-> {"embed"} \cup (IF fault = "store" THEN {"write"} ELSE {})]
        ELSE [status |-> 200, index |-> added.index, inserted |-> Len(documents),
              calls |-> {"embed", "write"}]

\* POST /insert.
insert_recipes(token, recipes, fault) ==
    LET req == [token |-> token, recipes |-> recipes, fault |-> fault]
        out == InsertOutcome(recipes, fault)
    IN  /\ resp = Idle
        /\ UNCHANGED <<db, view>>
        /\ IF authenticate(token) # {}
           THEN /\ \E st \in authenticate(token) : resp' = Refusal("insert", req, st, {})
                /\ index' = index
           ELSE /\ Len(out.index) <= MaxDocs
                /\ resp' = [op |-> "insert", req |-> req, status |-> out.status,
                            hits |-> <<>>, inserted |-> out.inserted, calls |-> out.calls,
                            candidates |-> <<>>]
                /\ index' = out.index

\* [c.strip() for c in canonical_str.split(",") if c.strip()]
CanonicalList(canonical_str) ==
    SelectSeq(MapStrip(Split(canonical_str, <<",">>)), LAMBDA c : c # <<>>)

\* A plausible slip: any() where all() is meant.
AnyIn(ingredients, canonical_list) ==
    \E i \in 1..Len(ingredients) : InList(ingredients[i], canonical_list)

\* all(ing in canonical_list for ing in ingredients)
AllIn(ingredients, canonical_list) ==
    \A i \in 1..Len(ingredients) : InList(ingredients[i], canonical_list)

\* has_all_ingredients: the list keeps its empty entries.
has_all_ingredients(canonical_str, ingredients) ==
    AllIn(ingredients, MapStrip(Split(canonical_str, <<",">>)))

\* Lines 162-172: the first filtering pass, filtered_results[:limit].
FilteredResults(results, include, limit) ==
    PySlice(SelectSeq(results,
                      LAMBDA r : ~Truthy(include)
                                 \/ has_all_ingredients(Get(r.doc.metadata.canonical, <<>>),
                                                        include)),
            limit)

\* A metadata text in the response: a JSON string, or null for None.
JsonText(v) == IF v = None THEN <<"null">> ELSE <<"str", v>>

\* The response record of one document. ingredients is the parsed JSON
\* object, <<"obj", members>>; questions is the stored text.
Hit(r, ingredients_dict) ==
    [id |-> r.id,
     score |-> r.score,
     foodname |-> Get(r.doc.metadata.foodname, None),
     ingredients |-> ingredients_dict,
     images |-> SelectSeq(Split(Get(r.doc.metadata.images, <<>>), <<"|", "|">>),
                          LAMBDA img : img # <<>>),
     calory |-> Get(r.doc.metadata.calory, None),
     recipe |-> r.doc.page_content,
     questions |-> JsonText(Get(r.doc.metadata.questions, None))]

\* A plausible slip: each hit is put at the front of the response, which
\* reverses the order of the candidates.
RECURSIVE BuildResponseReversed(_, _, _, _, _)
BuildResponseReversed(results, include, limit, i, response) ==
    IF i > Len(results) THEN [ok |-> TRUE, hits |-> response]
    ELSE LET r == results[i]
             canonical_list == CanonicalList(Get(r.doc.metadata.canonical, <<>>))
             raw == Get(r.doc.metadata.detailed_ingredients, None)
             parsed == JsonLoads(WrapBraces(raw))
             next == <<Hit(r, parsed.val)>> \o response
         IN  IF Truthy(include) /\ ~AllIn(include, canonical_list)
             THEN BuildResponseReversed(results, include, limit, i + 1, response)
             ELSE IF raw = None \/ ~parsed.ok THEN [ok |-> FALSE, hits |-> <<>>]
             ELSE IF Len(next) >= limit THEN [ok |-> TRUE, hits |-> next]
             ELSE BuildResponseReversed(results, include, limit, i + 1, next)

\* The loop that builds the response: [ok, hits]; ok is FALSE when
\* json.loads or the concatenation with None raises.
RECURSIVE BuildResponse(_, _, _, _, _)
BuildResponse(results, include, limit, i, response) ==
    IF i > Len(results) THEN [ok |-> TRUE, hits |-> response]
    ELSE LET r == results[i]
             canonical_list == CanonicalList(Get(r.doc.metadata.canonical, <<>>))
             raw == Get(r.doc.metadata.detailed_ingredients, None)
             parsed == JsonLoads(WrapBraces(raw))
             next == Append(response, Hit(r, parsed.val))
         IN  IF Truthy(include) /\ ~AllIn(include, canonical_list)
             THEN BuildResponse(results, include, limit, i + 1, response)
             ELSE IF raw = None \/ ~parsed.ok THEN [ok |-> FALSE, hits |-> <<>>]
             ELSE IF Len(next) >= limit THEN [ok |-> TRUE, hits |-> next]
             ELSE BuildResponse(results, include, limit, i + 1, next)

\* A plausible slip: CASE B asks for as many documents as CASE A reads.
SearchWide(limit) == GetLimit

\* k=request.limit * 10
SearchK(limit) == limit * 10

\* The candidates of a search: CASE A (blank query, no embedding call) or
\* CASE B (the query is embedded, then the index is read).
Candidates(query, limit, ranking, fault) ==
    IF Strip(query) = <<>>
    THEN LET existing_data == GetAll(index, GetLimit)
         IN  IF fault = "read" THEN [ok |-> FALSE, results |-> <<>>]
             ELSE [ok |-> TRUE,
                   results |-> [i \in 1..Len(existing_data) |->
                                   [id |-> existing_data[i].id, doc |-> existing_data[i].doc,
                                    score |-> 0]]]
    ELSE IF fault # "none" THEN [ok |-> FALSE, results |-> <<>>]
    ELSE SimilaritySearch(index, SearchK(limit), ranking)

\* POST /search. fault: what goes wrong in the embedding call or the index
\* read; ranking: the order the embedding gives the stored documents. The
\* answer records the identifiers of the candidates the index returned. A
\* search is the next request after an answer was read, or the request that
\* follows an insert at once.
search_recipes(token, query, include, limit, ranking, fault) ==
    LET req == [token |-> token, query |-> query, include |-> include, limit |-> limit,
                fault |-> fault]
        found == Candidates(query, limit, ranking, fault)
        built == BuildResponse(found.results, include, limit, 1, <<>>)
        calls == IF Strip(query) = <<>> THEN {"read"}
                 ELSE IF fault = "embed" THEN {"embed"}
                 ELSE {"embed", "read"}
        candidates == [i \in 1..Len(found.results) |-> found.results[i].id]
    IN  /\ resp.op \in {"idle", "insert"}
        /\ UNCHANGED <<index, db, view>>
        /\ IF authenticate(token) # {}
           THEN \E st \in authenticate(token) : resp' = Refusal("search", req, st, {})
           ELSE IF ~found.ok
           THEN resp' = Refusal("search", req, 500, calls)
           ELSE IF ~built.ok
           THEN resp' = [Refusal("search", req, 500, calls) EXCEPT !.candidates = candidates]
           ELSE resp' = [op |-> "search", req |-> req, status |-> 200, hits |-> built.hits,
                         inserted |-> 0, calls |-> calls, candidates |-> candidates]

\* The client has read the response; the service awaits the next request.
Respond == resp # Idle /\ resp' = Idle /\ UNCHANGED <<index, db, view>>

\* What requests carry.
Queries == {<<>>, <<" ">>, <<"c">>}
Includes == {None, <<>>, << <<"a">> >>, << <<"a">>, <<"c">> >>, << <<" ", "a">> >>,
             << <<>> >>}
Limits == MinLimit..MaxLimit
Batches == UNION {[1..n -> RecipeInputs] : n \in 0..MaxBatch}

Init ==
    /\ index \in {[i \in 1..Len(c) |-> [id |-> i, doc |-> c[i]]] : c \in PersistedCollections}
    /\ resp = Idle
    /\ db = {}
    /\ view = Idle

Insert ==
    /\ resp = Idle
    /\ \E token \in Tokens, recipes \in Batches, fault \in {"none", "embed", "store"} :
          insert_recipes(token, recipes, fault)

Search ==
    /\ resp = Idle
    /\ \E token \in Tokens, query \in Queries, include \in Includes, limit \in Limits,
          ranking \in Rankings(index), fault \in {"none", "embed", "read"} :
          search_recipes(token, query, include, limit, ranking, fault)

\* The client whose insert succeeded looks the first recipe of its batch up
\* by name at once, before any other request.
SearchInserted ==
    /\ resp.op = "insert" /\ resp.status = 200
    /\ \E limit \in Limits, ranking \in Rankings(index), fault \in {"none", "embed", "read"} :
          search_recipes(resp.req.token, resp.req.recipes[1].foodname, None, limit,
                         ranking, fault)

Next == Insert \/ Search \/ SearchInserted \/ Respond

Spec == Init /\ [][Next]_vars

----------------------------------------------------------------------------
\* The relational side: the recipes table, the adapter of
\* recipes/chromadb_client.py and RecipeViewSet.semantic_search.

\* Rows the recipes table may hold. ingredients: the names of the Ingredient
\* rows joined to the recipe through RecipeIngredient.
Row1 == [id |-> 1, title |-> <<"a">>, description |-> <<"c">>, is_public |-> TRUE,
         created_at |-> 1, ingredients |-> {}]
Row2 == [id |-> 2, title |-> <<"a">>, description |-> <<>>, is_public |-> FALSE,
         created_at |-> 2, ingredients |-> {"x"}]
Row3 == [id |-> 3, title |-> <<"A", "c">>, description |-> <<"c">>, is_public |-> TRUE,
         created_at |-> 3, ingredients |-> {"x"}]
Row4 == [id |-> 4, title |-> <<"a">>, description |-> <<"A">>, is_public |-> TRUE,
         created_at |-> 4, ingredients |-> {}]

RecipeRows == {Row1, Row2, Row3, Row4}

\* The names in the Ingredient table.
IngredientNames == {"x"}

\* Case folding of icontains.
Lower(c) == IF c = "A" THEN "a" ELSE c
LowerText(s) == [i \in 1..Len(s) |-> Lower(s[i])]

\* field__icontains=q
IContains(text, q) ==
    \E i \in 1..(Len(text) + 1) : OccursAt(LowerText(text), LowerText(q), i)

\* A queryset of Recipe as a list: Meta.ordering is -created_at.
RECURSIVE Ordered(_)
Ordered(rows) ==
    IF rows = {} THEN <<>>
    ELSE LET newest == CHOOSE r \in rows : \A q \in rows : q.created_at <= r.created_at
         IN  <<newest>> \o Ordered(rows \ {newest})

\* A plausible slip: the filter on is_public is left out.
AnyRows == db

\* Recipe.objects.filter(is_public=True)
PublicRows == {r \in db : r.is_public}

\* Recipe.objects.filter(title=foodname, is_public=True).first(): <<row>> or
\* <<>> for None.
FirstPublicByTitle(foodname) ==
    LET found == Ordered({r \in PublicRows : r.title = foodname})
    IN  IF found = <<>> THEN <<>> ELSE <<found[1]>>

\* map_chromadb_to_postgres_ids: [raised, ids]. A hit is [foodname |-> text,
\* None or Missing]; faults: the positions of the hits whose lookup throws.
RECURSIVE MapLoop(_, _, _, _)
MapLoop(chromadb_results, faults, i, recipe_ids) ==
    IF i > Len(chromadb_results) THEN [raised |-> FALSE, ids |-> recipe_ids]
    ELSE LET got == Get(chromadb_results[i].foodname, <<>>)
             foodname == Strip(got)
             recipe == FirstPublicByTitle(foodname)
         IN  IF got = None THEN [raised |-> TRUE, ids |-> <<>>]
             ELSE IF foodname # <<>> /\ i \notin faults /\ recipe # <<>>
             THEN MapLoop(chromadb_results, faults, i + 1, Append(recipe_ids, recipe[1].id))
             ELSE MapLoop(chromadb_results, faults, i + 1, recipe_ids)

map_chromadb_to_postgres_ids(chromadb_results, faults) ==
    MapLoop(chromadb_results, faults, 1, <<>>)

\* ChromaDBClient.search: the hits of the answer, or [] when the request
\* raises a RequestException (no connection, timeout, a status that is not
\* 2xx). service: [ok, hits], what the Search Service does with the request.
ClientSearch(service) == IF ~service.ok THEN <<>> ELSE service.hits

\* queryset[:limit]: a negative limit raises.
QuerySlice(rows, limit) ==
    IF limit < 0 THEN [raised |-> TRUE, ids |-> <<>>]
    ELSE [raised |-> FALSE,
          ids |-> LET all == Ordered(rows) IN [i \in 1..Len(PySlice(all, limit)) |-> all[i].id]]

\* filter(Q(title__icontains=query) | Q(description__icontains=query))
TextMatch(rows, query) ==
    {r \in rows : IContains(r.title, query) \/ IContains(r.description, query)}

\* Lines 130-144: the relational search used when the vector search is off
\* or the query is empty.
RelationalSearch(query, ingredient_names, limit) ==
    LET byText == IF query # <<>> THEN TextMatch(PublicRows, query) ELSE PublicRows
        ingredient_ids == {n \in IngredientNames : InList(n, ingredient_names)}
        byIngredient ==
            IF ingredient_names # <<>> /\ ingredient_ids # {}
            THEN {r \in byText : r.ingredients \cap ingredient_ids # {}}
            ELSE byText
    IN  QuerySlice(byIngredient, limit)

\* Lines 186-193: the relational search of the except branch.
ExceptSearch(query, limit) ==
    QuerySlice(IF query # <<>> THEN TextMatch(PublicRows, query) ELSE PublicRows, limit)

\* A plausible slip: the recipes are returned in the order of the queryset
\* that loads them, not in the order of recipe_ids.
VectorPathDbOrder(service, limit) ==
    LET chromadb_results == ClientSearch(service)
        mapped == map_chromadb_to_postgres_ids(chromadb_results, {})
        recipe_ids == mapped.ids
        loaded == Ordered({q \in PublicRows : InList(q.id, recipe_ids)})
        ordered_recipes == [i \in 1..Len(loaded) |-> loaded[i].id]
    IN  IF chromadb_results = <<>> THEN [raised |-> FALSE, ids |-> <<>>]
        ELSE IF mapped.raised THEN [raised |-> TRUE, ids |-> <<>>]
        ELSE IF recipe_ids = <<>> THEN [raised |-> FALSE, ids |-> <<>>]
        ELSE [raised |-> FALSE, ids |-> PySlice(ordered_recipes, limit)]

\* Lines 147-178: the vector path, [raised, ids].
VectorPath(service, limit) ==
    LET chromadb_results == ClientSearch(service)
        mapped == map_chromadb_to_postgres_ids(chromadb_results, {})
        recipe_ids == mapped.ids
        recipes_dict == {r.id : r \in {q \in PublicRows : InList(q.id, recipe_ids)}}
        ordered_recipes == SelectSeq(recipe_ids, LAMBDA rid : rid \in recipes_dict)
    IN  IF chromadb_results = <<>> THEN [raised |-> FALSE, ids |-> <<>>]
        ELSE IF mapped.raised THEN [raised |-> TRUE, ids |-> <<>>]
        ELSE IF recipe_ids = <<>> THEN [raised |-> FALSE, ids |-> <<>>]
        ELSE [raised |-> FALSE, ids |-> PySlice(ordered_recipes, limit)]

\* The Search Service failing, and the mark of a request that never called it.
ServiceFailed == [ok |-> FALSE, hits |-> <<>>]
NotCalled == [ok |-> FALSE, hits |-> <<>>]

\* POST /api/recipes/semantic-search. rawQuery: the query of the body;
\* service: what the Search Service does if it is called.
semantic_search(rawQuery, ingredient_names, limit, use_chromadb, service) ==
    LET query == Strip(rawQuery)
        req == [query |-> rawQuery, ingredients |-> ingredient_names, limit |-> limit,
                use_chromadb |-> use_chromadb]
        relational == RelationalSearch(query, ingredient_names, limit)
        vector == VectorPath(service, limit)
        fallback == ExceptSearch(query, limit)
        Answer(path, svc, r) ==
            [op |-> "semantic_search", req |-> req, path |-> path, service |-> svc,
             status |-> IF r.raised THEN 500 ELSE 200, ids |-> r.ids]
    IN  IF ~use_chromadb \/ query = <<>>
        THEN view' = Answer("relational", NotCalled, relational)
        ELSE IF ~vector.raised
        THEN view' = Answer("vector", service, vector)
        ELSE view' = Answer("except", service, fallback)

\* map_chromadb_to_postgres_ids called on its own.
MapHits(chromadb_results, faults) ==
    /\ UNCHANGED <<index, resp, db>>
    /\ view' = [op |-> "map", hits |-> chromadb_results, faults |-> faults,
                result |-> map_chromadb_to_postgres_ids(chromadb_results, faults)]

\* The caller has read the answer.
ViewRespond == view # Idle /\ view' = Idle /\ UNCHANGED <<index, resp, db>>

\* What the adapter is given.
Foodnames == {Missing, None, <<>>, <<"a">>, <<" ", "a">>, <<"A", "c">>}
HitLists == UNION {[1..n -> [foodname : Foodnames]] : n \in 0..MaxHits}
ViewQueries == {<<>>, <<" ">>, <<"a">>, <<"c", " ">>}
IngredientLists == {<<>>, <<"x">>, <<"y">>}

\* The answers the Search Service can give to a search of limit * 2: it
\* fails, or it answers at most limit * 2 hits.
ServiceAnswers(limit) ==
    {ServiceFailed} \cup {[ok |-> TRUE, hits |-> h] : h \in {l \in HitLists : Len(l) <= limit * 2}}

InitAdapter ==
    /\ index = <<>>
    /\ resp = Idle
    /\ db \in SUBSET RecipeRows
    /\ view = Idle

SemanticSearch ==
    /\ view = Idle
    /\ \E rawQuery \in ViewQueries, ingredient_names \in IngredientLists,
          limit \in Limits, use_chromadb \in BOOLEAN :
          \E service \in ServiceAnswers(limit) :
             /\ semantic_search(rawQuery, ingredient_names, limit, use_chromadb, service)
             /\ UNCHANGED <<index, resp, db>>

MapCall ==
    /\ view = Idle
    /\ \E chromadb_results \in HitLists :
          \E faults \in SUBSET (1..Len(chromadb_results)) :
             MapHits(chromadb_results, faults)

NextAdapter == SemanticSearch \/ MapCall \/ ViewRespond

SpecAdapter == InitAdapter /\ [][NextAdapter]_vars

----------------------------------------------------------------------------
\* semantic_search step by step, with the call to the Search Service in
\* flight: view is the position of the request in the view (received,
\* waiting for the reply with the seconds waited, answered), resp is the
\* Search Service's side of the connection (pending: accepted, no reply).

\* requests.post(..., timeout=10): the seconds the client waits for the
\* reply before it raises a timeout.
PostTimeout == 10

\* The longest wait the model follows, in seconds.
MaxWait == 12

Pending == [op |-> "pending"]

\* A plausible slip: the post is made with no timeout.
NeverTimedOut(elapsed) == FALSE

\* Has the wait for the reply reached the timeout of the post?
TimedOut(elapsed) == elapsed >= PostTimeout

\* The recipes table is empty or holds every row of RecipeRows.
InitTimeout ==
    /\ index = <<>>
    /\ resp = Idle
    /\ db \in {{}, RecipeRows}
    /\ view = Idle

\* The request arrives at the view.
Receive ==
    /\ view = Idle
    /\ \E rawQuery \in ViewQueries, ingredient_names \in IngredientLists,
          limit \in Limits, use_chromadb \in BOOLEAN :
          view' = [op |-> "received",
                   req |-> [query |-> rawQuery, ingredients |-> ingredient_names,
                            limit |-> limit, use_chromadb |-> use_chromadb],
                   elapsed |-> 0]
    /\ UNCHANGED <<index, resp, db>>

\* Lines 128-144: no call is made; the relational search answers.
AnswerRelational ==
    /\ view.op = "received"
    /\ ~view.req.use_chromadb \/ Strip(view.req.query) = <<>>
    /\ semantic_search(view.req.query, view.req.ingredients, view.req.limit,
                       view.req.use_chromadb, NotCalled)
    /\ UNCHANGED <<index, resp, db>>

\* requests.post is sent: the Search Service accepts the connection.
Post ==
    /\ view.op = "received"
    /\ view.req.use_chromadb /\ Strip(view.req.query) # <<>>
    /\ view' = [view EXCEPT !.op = "waiting"]
    /\ resp' = Pending
    /\ UNCHANGED <<index, db>>

\* A second passes with no reply.
Tick ==
    /\ view.op = "waiting"
    /\ ~TimedOut(view.elapsed)
    /\ view.elapsed < MaxWait
    /\ view' = [view EXCEPT !.elapsed = @ + 1]
    /\ UNCHANGED <<index, resp, db>>

\* The Search Service replies before the timeout (with hits or with an
\* error status), and the view goes on with the reply.
Reply ==
    /\ view.op = "waiting"
    /\ ~TimedOut(view.elapsed)
    /\ \E service \in ServiceAnswers(view.req.limit) :
          semantic_search(view.req.query, view.req.ingredients, view.req.limit, TRUE, service)
    /\ resp' = Idle
    /\ UNCHANGED <<index, db>>

\* No reply came within the timeout: requests raises a Timeout, which is a
\* RequestException; the client returns [] and the view goes on. The
\* Search Service still holds the connection.
ReadTimeout ==
    /\ view.op = "waiting"
    /\ TimedOut(view.elapsed)
    /\ semantic_search(view.req.query, view.req.ingredients, view.req.limit, TRUE,
                       ServiceFailed)
    /\ UNCHANGED <<index, resp, db>>

\* The response is sent to the caller.
Deliver ==
    /\ view.op = "semantic_search"
    /\ view' = Idle
    /\ UNCHANGED <<index, resp, db>>

NextTimeout ==
    Receive \/ AnswerRelational \/ Post \/ Tick \/ Reply \/ ReadTimeout \/ Deliver

\* The worker that serves the request runs its code, time passes and the
\* timer of the post fires; nothing makes the Search Service reply.
SpecTimeout ==
    /\ InitTimeout
    /\ [][NextTimeout]_vars
    /\ WF_vars(AnswerRelational)
    /\ WF_vars(Post)
    /\ WF_vars(Tick)
    /\ WF_vars(ReadTimeout)

----------------------------------------------------------------------------
\* RecipeViewSet.rate on one recipe, with the requests of several users in
\* flight at once. db is the recipe row and the recipe_ratings table:
\* [ratings, average_rating, ratings_count], ratings a set of
\* [user, rating]; average_rating is kept in hundredths (DecimalField with
\* decimal_places=2). view[u] is the position of the request of user u.

\* Most users that rate the recipe.
MaxUsers == 2

Users == 1..MaxUsers

\* The values a request carries as rating: 0 stands for a missing one.
RatingInputs == {0, 1, 5, 6}

RECURSIVE SumRatings(_)
SumRatings(rows) ==
    IF rows = {} THEN 0
    ELSE LET r == CHOOSE x \in rows : TRUE IN r.rating + SumRatings(rows \ {r})

\* ratings.aggregate(Avg('rating'))['rating__avg'] or 0, as stored in
\* average_rating: hundredths, rounded to the nearest (no tie occurs for
\* fewer than eight rows).
AvgHundredths(rows) ==
    IF rows = {} THEN 0
    ELSE (SumRatings(rows) * 100 + Cardinality(rows) \div 2) \div Cardinality(rows)

NoRequest == [pc |-> "none"]

InitRate ==
    /\ index = <<>>
    /\ resp = Idle
    /\ db = [ratings |-> {}, average_rating |-> 0, ratings_count |-> 0]
    /\ view = [u \in Users |-> NoRequest]

\* Lines 217-225: the recipe is loaded and the rating validated.
RateStart(u) ==
    /\ view[u] = NoRequest
    /\ \E rating_value \in RatingInputs :
          view' = [view EXCEPT ![u] =
                     IF rating_value = 0 \/ ~(1 <= rating_value /\ rating_value <= 5)
                     THEN [pc |-> "done", rating |-> rating_value, status |-> 400,
                           avg |-> 0, count |-> 0]
                     ELSE [pc |-> "upsert", rating |-> rating_value, status |-> 0,
                           avg |-> 0, count |-> 0]]
    /\ UNCHANGED <<index, resp, db>>

\* Lines 227-231: update_or_create on (recipe, user), one statement of its
\* own transaction; unique_together keeps one row for the pair.
RateUpsert(u) ==
    /\ view[u].pc = "upsert"
    /\ db' = [db EXCEPT !.ratings =
                 {r \in @ : r.user # u} \cup {[user |-> u, rating |-> view[u].rating]}]
    /\ view' = [view EXCEPT ![u].pc = "avg",
                            ![u].status = IF \E r \in db.ratings : r.user = u
                                          THEN 200 ELSE 201]
    /\ UNCHANGED <<index, resp>>

\* Line 235: the average is read.
RateAvg(u) ==
    /\ view[u].pc = "avg"
    /\ view' = [view EXCEPT ![u].pc = "count", ![u].avg = AvgHundredths(db.ratings)]
    /\ UNCHANGED <<index, resp, db>>

\* Line 236: the count is read, in a query of its own.
RateCount(u) ==
    /\ view[u].pc = "count"
    /\ view' = [view EXCEPT ![u].pc = "save", ![u].count = Cardinality(db.ratings)]
    /\ UNCHANGED <<index, resp, db>>

\* Line 237: recipe.save() writes the values this request computed.
RateSave(u) ==
    /\ view[u].pc = "save"
    /\ db' = [db EXCEPT !.average_rating = view[u].avg, !.ratings_count = view[u].count]
    /\ view' = [view EXCEPT ![u].pc = "done"]
    /\ UNCHANGED <<index, resp>>

\* Line 239: the response is sent; the user may rate again.
RateRespond(u) ==
    /\ view[u].pc = "done"
    /\ view' = [view EXCEPT ![u] = NoRequest]
    /\ UNCHANGED <<index, resp, db>>

NextRate ==
    \E u \in Users :
        \/ RateStart(u)
        \/ RateUpsert(u)
        \/ RateAvg(u)
        \/ RateCount(u)
        \/ RateSave(u)
        \/ RateRespond(u)

SpecRate == InitRate /\ [][NextRate]_vars

----------------------------------------------------------------------------
\* The viewing history of one authenticated user (history/views.py and
\* RecipeViewSet.retrieve). db[r] is the number of RecipeHistory rows the
\* user has for recipe r: the table has no unique constraint on
\* (user, recipe). view is the last answer.

\* Most RecipeHistory rows the user has for one recipe.
MaxRows == 3

\* The recipes that exist.
RecipeIds == {1, 2, 3}

InitHistory ==
    /\ index = <<>>
    /\ resp = Idle
    /\ db = [r \in RecipeIds |-> 0]
    /\ view = Idle

\* GET /api/recipes/<id>/ by the user: a history row is created each time.
Retrieve(r) ==
    /\ view = Idle
    /\ db[r] < MaxRows
    /\ db' = [db EXCEPT ![r] = @ + 1]
    /\ view' = [op |-> "retrieve", recipe |-> r, status |-> 200, existed |-> db[r]]
    /\ UNCHANGED <<index, resp>>

\* POST /api/history/<recipe_id>: get_or_create creates the row when the
\* user has none, returns the row when there is one, and raises
\* MultipleObjectsReturned, which add does not catch, when there are more.
HistoryAdd(r) ==
    /\ view = Idle
    /\ db' = [db EXCEPT ![r] = IF @ = 0 THEN 1 ELSE @]
    /\ view' = [op |-> "add", recipe |-> r,
                status |-> IF db[r] = 0 THEN 201 ELSE IF db[r] = 1 THEN 200 ELSE 500,
                existed |-> db[r]]
    /\ UNCHANGED <<index, resp>>

\* DELETE /api/history/clear: every row of the user is deleted.
HistoryClear ==
    /\ view = Idle
    /\ db' = [r \in RecipeIds |-> 0]
    /\ view' = [op |-> "clear", recipe |-> 0, status |-> 200, existed |-> 0]
    /\ UNCHANGED <<index, resp>>

NextHistory ==
    \/ \E r \in RecipeIds : Retrieve(r) \/ HistoryAdd(r)
    \/ HistoryClear
    \/ ViewRespond

SpecHistory == InitHistory /\ [][NextHistory]_vars

----------------------------------------------------------------------------
\* The sync_chromadb_to_postgres management command, under SpecSync.
\* db is the relational database: the columns of the users table among
\* those the command may add, the usernames, the recipe rows, the
\* ingredient names and the recipe-ingredient rows. view is the summary the
\* last run of the command printed.

MaxRecipes == 2

ColumnsToAdd ==
    {"student_number", "role", "biography", "profile_picture",
     "created_at", "updated_at"}
SystemUser == <<"s", "y", "s", "t", "e", "m">>
AdminUser == <<"a", "d", "m", "i", "n">>
DefaultQuantity == <<"d", "e", "f">>

\* Records as either loader hands them to the loop.
SyncA == [foodname |-> <<"a">>, canonical |-> << <<"x">> >>,
          ingredients |-> << << <<"x">>, <<"1">> >> >>]
SyncC == [foodname |-> <<"c", " ">>, canonical |-> << <<"x">>, <<" ">>, <<"y">> >>,
          ingredients |-> << << <<"y">>, <<" ">> >> >>]
SyncBlank == [foodname |-> <<" ">>, canonical |-> <<>>, ingredients |-> <<>>]
SyncTwice == [foodname |-> <<"t">>, canonical |-> << <<"x">>, <<"x", " ">> >>,
              ingredients |-> <<>>]
SyncKeys == [foodname |-> <<"k">>, canonical |-> <<>>,
             ingredients |-> << << <<"y">>, <<"2">> >> >>]
SyncData ==
    {<<>>, <<SyncA>>, <<SyncA, SyncC>>, <<SyncBlank, SyncA>>, <<SyncTwice>>,
     <<SyncKeys>>}

\* _fix_user_table_schema: every listed column the table lacks is added.
fix_user_table_schema(database) ==
    [database EXCEPT !.columns = @ \cup ColumnsToAdd]

\* _get_or_create_author: the schema is fixed first; a named author must
\* exist; otherwise the system user is fetched, or inserted when absent.
get_or_create_author(database, username) ==
    LET fixed == fix_user_table_schema(database)
    IN  IF username # None
        THEN [ok |-> username \in fixed.users, db |-> fixed, author |-> username]
        ELSE [ok |-> TRUE,
              db |-> [fixed EXCEPT !.users = @ \cup {SystemUser}],
              author |-> SystemUser]

\* The names _sync_recipe_ingredients goes through: canonical, or the keys of
\* the ingredients dict when canonical is empty; blank names are skipped.
SyncIngredientNames(data) ==
    LET keys == [i \in 1..Len(data.ingredients) |-> data.ingredients[i][1]]
        ingredient_names == IF data.canonical # <<>> THEN data.canonical ELSE keys
    IN  SelectSeq(MapStrip(ingredient_names), LAMBDA n : n # <<>>)

Quantity(data, name) ==
    LET given == SelectSeq(data.ingredients,
                           LAMBDA p : p[1] = name /\ Strip(p[2]) # <<>>)
    IN  IF given = <<>> THEN DefaultQuantity ELSE given[1][2]

\* _sync_recipe inside transaction.atomic: a blank foodname or a name listed
\* twice (unique_together recipe, ingredient) raises and nothing is written;
\* with update_existing the newest recipe of that title and author is
\* updated, otherwise a row is created; the recipe's ingredient rows are
\* replaced.
sync_recipe(database, data, author, update_existing) ==
    LET foodname == Strip(data.foodname)
        names == SyncIngredientNames(data)
        existing == IF update_existing
                    THEN {r \in database.recipes :
                            r.title = foodname /\ r.author = author}
                    ELSE {}
        newId == Cardinality(database.recipes) + 1
        id == IF existing = {} THEN newId
              ELSE CHOOSE i \in {r.id : r \in existing} :
                       \A r \in existing : r.id <= i
        rows == {[recipe |-> id, ingredient |-> names[k],
                  quantity |-> Quantity(data, names[k]), order |-> k] :
                    k \in 1..Len(names)}
    IN  IF foodname = <<>> \/ (\E j, k \in 1..Len(names) : j # k /\ names[j] = names[k])
        THEN [ok |-> FALSE, created |-> FALSE, db |-> database]
        ELSE [ok |-> TRUE, created |-> existing = {},
              db |-> [database EXCEPT
                        !.recipes = @ \cup {[id |-> id, title |-> foodname,
                                             author |-> author]},
                        !.ingredients = @ \cup {names[k] : k \in 1..Len(names)},
                        !.links = {l \in @ : l.recipe # id} \cup rows]]

\* The loop of handle over the loaded records.
RECURSIVE SyncAll(_, _, _, _, _, _)
SyncAll(run, data, i, author, dry_run, update_existing) ==
    IF i > Len(data) THEN run
    ELSE IF dry_run
    THEN SyncAll([run EXCEPT !.synced = @ + 1], data, i + 1, author,
                 dry_run, update_existing)
    ELSE LET s == sync_recipe(run.db, data[i], author, update_existing)
             next == IF ~s.ok THEN [run EXCEPT !.errors = @ + 1]
                     ELSE IF s.created
                     THEN [run EXCEPT !.db = s.db, !.synced = @ + 1,
                                      !.created = @ + 1]
                     ELSE [run EXCEPT !.db = s.db, !.synced = @ + 1,
                                      !.updated = @ + 1]
         IN  SyncAll(next, data, i + 1, author, dry_run, update_existing)

\* handle: the author is fetched or created, the records are loaded (loaded
\* is FALSE when the loader raises CommandError), and the loop runs.
handle(database, dry_run, update_existing, username, loaded, data) ==
    LET a == get_or_create_author(database, username)
        start == [db |-> a.db, status |-> "done", synced |-> 0, created |-> 0,
                  updated |-> 0, errors |-> 0]
    IN  IF ~a.ok \/ ~loaded \/ data = <<>>
        THEN [start EXCEPT !.status = "CommandError"]
        ELSE SyncAll(start, data, 1, a.author, dry_run, update_existing)

NoLinks == {}

InitSync ==
    /\ index = <<>>
    /\ resp = Idle
    /\ view = Idle
    /\ \E columns \in {ColumnsToAdd, {"role", "created_at", "updated_at"}},
          users \in {{}, {AdminUser}, {AdminUser, SystemUser}} :
         db = [columns |-> columns, users |-> users, recipes |-> {},
               ingredients |-> {}, links |-> NoLinks]

\* One run of the command.
SyncCommand ==
    /\ view = Idle
    /\ \E source \in {"jsonl", "chromadb"}, dry_run \in BOOLEAN,
          update_existing \in BOOLEAN, username \in {None, AdminUser},
          loaded \in BOOLEAN, data \in SyncData :
         LET run == handle(db, dry_run, update_existing, username, loaded, data)
         IN  /\ Cardinality(run.db.recipes) <= MaxRecipes
             /\ db' = run.db
             /\ view' = [op |-> "sync", source |-> source, dry_run |-> dry_run,
                         status |-> run.status, synced |-> run.synced,
                         created |-> run.created, updated |-> run.updated,
                         errors |-> run.errors]
    /\ UNCHANGED <<index, resp>>

NextSync == SyncCommand \/ ViewRespond

SpecSync == InitSync /\ [][NextSync]_vars

----------------------------------------------------------------------------
\* Two /insert requests served at the same time (two workers over the same
\* persisted collection), under SpecInsert. db counts the UUIDs drawn so
\* far; view holds, per request, how far its handler has come.

MaxStored == 4
MaxDrawn == 6
Requests == {1, 2}
ConcurrentBatches == UNION {[1..n -> {RecipeA, RecipeC}] : n \in 1..MaxBatch}

\* A plausible slip: the identifier of a document is its position in the
\* batch, whatever was drawn before.
batch_position(drawn, n) == [i \in 1..n |-> i]

\* [str(uuid4()) for _ in range(n)]: n identifiers never drawn before.
uuid4(drawn, n) == [i \in 1..n |-> drawn + i]

\* The documents of the batches in flight that are not stored yet.
Unwritten(v) == Len(v.documents) - v.written

InitInsert ==
    /\ index \in {[i \in 1..Len(c) |-> [id |-> i, doc |-> c[i]]] : c \in PersistedCollections}
    /\ resp = Idle
    /\ db = Len(index)
    /\ view = [q \in Requests |-> [pc |-> "none", documents |-> <<>>,
                                    ids |-> <<>>, written |-> 0, status |-> 0]]

\* The handler up to the call of add_documents: the documents are built
\* and their identifiers drawn.
InsertPrepare(q) ==
    /\ view[q].pc = "none"
    /\ \E recipes \in ConcurrentBatches :
         /\ Len(index) + Len(recipes)
              + Unwritten(view[3 - q]) <= MaxStored
         /\ db + Len(recipes) <= MaxDrawn
         /\ view' = [view EXCEPT ![q] =
                        [pc |-> "adding",
                         documents |-> [i \in 1..Len(recipes) |->
                                          process_recipe_to_document(recipes[i])],
                         ids |-> uuid4(db, Len(recipes)),
                         written |-> 0, status |-> 0]]
         /\ db' = db + Len(recipes)
    /\ UNCHANGED <<index, resp>>

\* add_documents stores the next document of the batch under its
\* identifier.
InsertWrite(q) ==
    /\ view[q].pc = "adding"
    /\ view[q].written < Len(view[q].documents)
    /\ LET k == view[q].written + 1
       IN  /\ index' = Upsert(index, <<view[q].documents[k]>>, <<view[q].ids[k]>>, 1)
           /\ view' = [view EXCEPT ![q].written = k]
    /\ UNCHANGED <<resp, db>>

\* add_documents raises: the handler answers 500.
InsertFail(q) ==
    /\ view[q].pc = "adding"
    /\ view[q].written < Len(view[q].documents)
    /\ view' = [view EXCEPT ![q].pc = "done", ![q].status = 500]
    /\ UNCHANGED <<index, resp, db>>

\* add_documents returned: the handler answers 200.
InsertReturn(q) ==
    /\ view[q].pc = "adding"
    /\ view[q].written = Len(view[q].documents)
    /\ view' = [view EXCEPT ![q].pc = "done", ![q].status = 200]
    /\ UNCHANGED <<index, resp, db>>

\* Both answers are delivered; the next two requests may come.
InsertDelivered ==
    /\ \A q \in Requests : view[q].pc = "done"
    /\ view' = [q \in Requests |-> [pc |-> "none", documents |-> <<>>,
                                     ids |-> <<>>, written |-> 0, status |-> 0]]
    /\ UNCHANGED <<index, resp, db>>

NextInsert ==
    \/ \E q \in Requests :
          InsertPrepare(q) \/ InsertWrite(q) \/ InsertFail(q) \/ InsertReturn(q)
    \/ InsertDelivered

SpecInsert == InitInsert /\ [][NextInsert]_vars

----------------------------------------------------------------------------
\* /search over an index larger than the pool of candidates, under
\* SpecPool. The index is given in the order the query ranks it; the
\* documents are the encodings of two recipes, one of which holds the
\* ingredient "c".

MaxPool == 12
PoolDocs == {process_recipe_to_document(RecipeA), process_recipe_to_document(RecipeC)}
PoolIncludes == {None, << <<"c">> >>}
PoolLimits == {0, 1}

InitPool ==
    /\ \E n \in 0..MaxPool : \E c \in [1..n -> PoolDocs] :
          index = [i \in 1..n |-> [id |-> i, doc |-> c[i]]]
    /\ resp = Idle
    /\ db = {}
    /\ view = Idle

\* A /search whose query is not blank; the nearest document is the first
\* of the index.
PoolSearch ==
    /\ resp = Idle
    /\ \E token \in Tokens, include \in PoolIncludes, limit \in PoolLimits,
          fault \in {"none", "embed", "read"} :
          search_recipes(token, <<"c">>, include, limit,
                         [i \in 1..Len(index) |-> i], fault)

NextPool == PoolSearch \/ Respond

SpecPool == InitPool /\ [][NextPool]_vars

----------------------------------------------------------------------------
\* The ingestion script data-insertion.py, under SpecIngest. db is the
\* file, a list of records (each its line number); index is the list of
\* bodies the Search Service has received; view is the script: the next
\* line, items, counter, and whether some POST did not succeed.

MaxLines == 6

InitIngest ==
    /\ \E n \in 0..MaxLines : db = [i \in 1..n |-> i]
    /\ index = <<>>
    /\ resp = Idle
    /\ view = [pc |-> "read", line |-> 1, items |-> <<>>, counter |-> 0,
               failed |-> FALSE]

\* Lines 19-24 and 61: the next record is appended to items; at an odd
\* counter the batch is posted, at an even one the loop goes on.
ReadLine ==
    /\ view.pc = "read" /\ view.line <= Len(db)
    /\ view' = [view EXCEPT !.items = Append(@, db[view.line]),
                            !.line = @ + 1,
                            !.pc = IF view.counter % 2 = 1 THEN "post" ELSE "read",
                            !.counter = IF view.counter % 2 = 1 THEN @ ELSE @ + 1]
    /\ UNCHANGED <<index, resp, db>>

\* Lines 30-38: the POST succeeds; items is emptied.
PostOk ==
    /\ view.pc = "post"
    /\ index' = Append(index, view.items)
    /\ view' = [view EXCEPT !.items = <<>>, !.pc = "read", !.counter = @ + 1]
    /\ UNCHANGED <<resp, db>>

\* Lines 42-45: the service answers 4xx or 5xx; the loop is left.
PostHttpError ==
    /\ view.pc = "post"
    /\ view' = [view EXCEPT !.pc = "done", !.failed = TRUE]
    /\ UNCHANGED <<index, resp, db>>

\* Lines 47-58: no connection, a timeout or another exception; items is
\* kept and the loop goes on. After a read timeout the service may have
\* stored the batch all the same.
PostException ==
    /\ view.pc = "post"
    /\ index' \in {index, Append(index, view.items)}
    /\ view' = [view EXCEPT !.pc = "read", !.counter = @ + 1, !.failed = TRUE]
    /\ UNCHANGED <<resp, db>>

\* The file is exhausted: the script ends.
EndOfFile ==
    /\ view.pc = "read" /\ view.line > Len(db)
    /\ view' = [view EXCEPT !.pc = "done"]
    /\ UNCHANGED <<index, resp, db>>

NextIngest == ReadLine \/ PostOk \/ PostHttpError \/ PostException \/ EndOfFile

\* The interpreter runs the script on: a step that can be taken is taken.
SpecIngest == InitIngest /\ [][NextIngest]_vars /\ WF_vars(NextIngest)

----------------------------------------------------------------------------
\* Properties of the Search Service, under Spec.

Authorized == resp.req.token = CHROMA_ACCESS_TOKEN

\* The stored document of an identifier.
DocById(id) == (CHOOSE e \in {index[i] : i \in 1..Len(index)} : e.id = id).doc

\* A stored document whose detailed_ingredients is absent or does not parse
\* as a JSON object once wrapped in braces.
Malformed(doc) ==
    \/ doc.metadata.detailed_ingredients = Missing
    \/ ~JsonLoads(WrapBraces(doc.metadata.detailed_ingredients)).ok

\* A search that reached the index and was given candidates: authorized, no
\* fault in a call it makes, and a blank query or a positive limit * 10. In
\* this model limit * 10 and GetLimit exceed the size of the index, so every
\* stored document is then a candidate.
GotCandidates ==
    /\ resp.op = "search"
    /\ Authorized
    /\ \/ Strip(resp.req.query) = <<>> /\ resp.req.fault # "read"
       \/ Strip(resp.req.query) # <<>> /\ resp.req.fault = "none" /\ resp.req.limit > 0

\* C2: every /search answered 200 returns at most limit items, for every
\* limit the request model accepts. It is stated for the limits from 0 up:
\* below 0 no list is short enough, and any 200 would refute it.
C2_AtMostLimit ==
    (resp.op = "search" /\ resp.status = 200 /\ resp.req.limit >= 0)
        => Len(resp.hits) <= resp.req.limit

\* C3: a stored document with metadata that cannot be deserialized does not
\* fail the search: it is answered 200, and only that document is left out
\* or has the field nulled.
C3_MalformedIsolated ==
    (GotCandidates /\ \E i \in 1..Len(index) : Malformed(index[i].doc))
        => resp.status = 200

\* C7: with a non-empty include_ingredients, every returned hit is a document
\* whose stored canonical list, split on "," with the entries trimmed, holds
\* every requested name as an exact string.
C7_HitsHoldEveryIngredient ==
    (resp.op = "search" /\ resp.status = 200 /\ Truthy(resp.req.include)) =>
        \A h \in 1..Len(resp.hits) :
            \A n \in 1..Len(resp.req.include) :
                \E c \in 1..Len(Split(DocById(resp.hits[h].id).metadata.canonical, <<",">>)) :
                    Strip(Split(DocById(resp.hits[h].id).metadata.canonical, <<",">>)[c])
                        = resp.req.include[n]

\* A filtered search that returned a hit out of an index holding another
\* document that lacks a requested name.
C7_Witness ==
    /\ resp.op = "search" /\ resp.status = 200
    /\ Len(resp.req.include) = 2 /\ resp.req.include # None
    /\ Len(resp.hits) = 1
    /\ \E i \in 1..Len(index) :
          /\ index[i].id # resp.hits[1].id
          /\ ~has_all_ingredients(index[i].doc.metadata.canonical, resp.req.include)

\* C8: a request to /insert or /search whose token is absent or wrong is
\* answered 401, the same for both, with no result; the handler body does
\* not run (no index read, index write or embedding call) and the index is
\* unchanged.
C8_UnauthorizedIs401 ==
    [][(resp = Idle /\ resp'.op \in {"insert", "search"}
            /\ resp'.req.token # CHROMA_ACCESS_TOKEN)
        => (/\ resp'.status = 401
            /\ resp'.hits = <<>> /\ resp'.inserted = 0
            /\ resp'.calls = {}
            /\ index' = index)]_vars

C10_EmptyBatchRejected ==
    [][(resp = Idle /\ resp'.op = "insert" /\ resp'.req.token = CHROMA_ACCESS_TOKEN
            /\ resp'.req.recipes = <<>>)
        => (resp'.status = 400 /\ resp'.inserted = 0 /\ index' = index)]_vars

\* An authenticated insert of an empty list that was answered.
C10_Witness ==
    /\ resp.op = "insert" /\ Authorized /\ resp.req.recipes = <<>>
    /\ resp.req.fault = "none" /\ resp.status = 400

----------------------------------------------------------------------------
\* Properties of the adapter, under SpecAdapter.

\* A semantic_search that called the Search Service.
CalledService == view.op = "semantic_search" /\ view.path \in {"vector", "except"}

\* The first limit public recipes, in queryset order, whose title or
\* description contains the query.
TextResults(query, limit) ==
    LET all == Ordered(TextMatch(PublicRows, query))
    IN  [i \in 1..(IF limit < Len(all) THEN limit ELSE Len(all)) |-> all[i].id]

\* C1: when the call to the Search Service fails, semantic_search answers
\* with the public recipes whose title or description contains the query,
\* truncated to limit, and no exception reaches the caller.
C1_FallbackOnServiceFailure ==
    (CalledService /\ ~view.service.ok /\ view.req.limit >= 0) =>
        /\ view.status = 200
        /\ view.ids = TextResults(Strip(view.req.query), view.req.limit)

\* C4: map_chromadb_to_postgres_ids never raises, whatever the foodname of
\* a hit (missing, null, empty, matching nothing) and also when a lookup
\* throws.
C4_MapNeverRaises == view.op = "map" => ~view.result.raised

\* The identifiers the hits stand for when a hit counts only if a public
\* recipe has exactly its foodname as title: the first such recipe of each.
RECURSIVE ExactIds(_)
ExactIds(hits) ==
    IF hits = <<>> THEN <<>>
    ELSE LET f == Head(hits).foodname
             rows == Ordered({r \in PublicRows : r.title = f})
         IN  (IF rows = <<>> THEN <<>> ELSE <<rows[1].id>>) \o ExactIds(Tail(hits))

\* C5: the output of map_chromadb_to_postgres_ids is, in hit order, the ID
\* of the first public recipe whose title equals the foodname of the hit
\* exactly, one entry for each hit that has such a recipe and nothing for
\* the others.
C5_MapOutputExact ==
    (view.op = "map" /\ view.faults = {}) =>
        (~view.result.raised /\ view.result.ids = ExactIds(view.hits))

\* Does the hit at position p stand for the recipe of identifier id?
Resolves(hits, p, id) ==
    /\ hits[p].foodname \notin {None, Missing}
    /\ \E r \in db : r.id = id /\ r.title = Strip(hits[p].foodname)

\* C6: on the vector path the recipes of the response are in the order of
\* their hits: the response maps into the hits of the Search Service by a
\* strictly increasing choice of positions.
C6_HitOrderKept ==
    (view.op = "semantic_search" /\ view.path = "vector") =>
        \E f \in [1..Len(view.ids) -> 1..Len(view.service.hits)] :
            /\ \A i, j \in 1..Len(view.ids) : i < j => f[i] < f[j]
            /\ \A i \in 1..Len(view.ids) : Resolves(view.service.hits, f[i], view.ids[i])

\* A vector answer of two recipes where the hit order is not the order of
\* the recipes table (newest first).
C6_Witness ==
    /\ view.op = "semantic_search" /\ view.path = "vector"
    /\ Len(view.ids) = 2
    /\ view.ids[1] < view.ids[2]

----------------------------------------------------------------------------
\* Further properties of the Search Service, under Spec.

\* C11: a successful /insert of N recipes appends exactly N documents, the
\* encodings of the recipes in batch order, each under an identifier that
\* no other document of the batch or of the index has; it reports N and
\* leaves every document stored before as it was.
C11_InsertAddsFreshDocuments ==
    [][(resp = Idle /\ resp'.op = "insert" /\ resp'.status = 200)
        => (/\ Len(index') = Len(index) + Len(resp'.req.recipes)
            /\ resp'.inserted = Len(resp'.req.recipes)
            /\ SubSeq(index', 1, Len(index)) = index
            /\ \A i \in 1..Len(resp'.req.recipes) :
                  index'[Len(index) + i].doc = process_recipe_to_document(resp'.req.recipes[i])
            /\ \A i, j \in 1..Len(index') : index'[i].id = index'[j].id => i = j)]_vars

\* The same recipe inserted a second time: the index holds two documents
\* of the same content under different identifiers.
C11_Witness ==
    /\ resp.op = "insert" /\ resp.status = 200
    /\ Len(resp.req.recipes) = 1 /\ Len(index) = 2
    /\ index[1].doc = index[2].doc
    /\ index[1].id # index[2].id

\* Is the list of identifiers sub a subsequence of the list full, in the
\* same order?
IsSubsequence(sub, full) ==
    \E f \in [1..Len(sub) -> 1..Len(full)] :
        /\ \A i, j \in 1..Len(sub) : i < j => f[i] < f[j]
        /\ \A i \in 1..Len(sub) : full[f[i]] = sub[i]

HitIds == [i \in 1..Len(resp.hits) |-> resp.hits[i].id]

\* C12: the hits of a /search are a subsequence of the candidates the index
\* returned, in the same order: non-decreasing distance for a query that is
\* not blank, the order of the stored documents for a blank one.
C12_HitsKeepCandidateOrder ==
    (resp.op = "search" /\ resp.status = 200) =>
        /\ IsSubsequence(HitIds, resp.candidates)
        /\ \A i, j \in 1..Len(resp.hits) : i < j => resp.hits[i].score <= resp.hits[j].score
        /\ Strip(resp.req.query) = <<>> =>
              IsSubsequence(HitIds, [i \in 1..Len(index) |-> index[i].id])

\* A ranked search that returned two hits in an order that is not the order
\* in which the index stores them.
C12_Witness ==
    /\ resp.op = "search" /\ resp.status = 200
    /\ Strip(resp.req.query) # <<>>
    /\ Len(resp.hits) = 2
    /\ resp.hits[1].id > resp.hits[2].id
    /\ resp.hits[1].score < resp.hits[2].score

\* C13: a /search with a blank query and no include_ingredients over an
\* index that holds documents returns a list that is not empty, and every
\* hit of it has score 0.
C13_BlankQueryReturnsPool ==
    (/\ resp.op = "search" /\ Authorized /\ resp.req.fault = "none"
     /\ Strip(resp.req.query) = <<>> /\ ~Truthy(resp.req.include)
     /\ index # <<>>)
        => (/\ resp.status = 200
            /\ resp.hits # <<>>
            /\ \A i \in 1..Len(resp.hits) : resp.hits[i].score = 0)

\* A requested name that the canonical list of no stored document holds.
AbsentName(name) ==
    \A i \in 1..Len(index) :
        ~InList(name, CanonicalList(Get(index[i].doc.metadata.canonical, <<>>)))

\* C14: a /search whose include_ingredients holds a name that no stored
\* document has in its canonical list is answered 200 with an empty list,
\* whatever the query, the limit and the stored documents; it is never
\* answered with an error.
C14_AbsentIngredientGivesEmpty ==
    (/\ resp.op = "search" /\ Authorized /\ resp.req.fault = "none"
     /\ Truthy(resp.req.include)
     /\ \E n \in 1..Len(resp.req.include) : AbsentName(resp.req.include[n]))
        => (resp.status = 200 /\ resp.hits = <<>>)

\* The recipes whose encoding is the stored document of a hit.
SourcesOf(hit) ==
    {recipe \in RecipeInputs : process_recipe_to_document(recipe) = DocById(hit.id)}

\* A parsed JSON object of strings, <<"obj", members>>, as a dict: a
\* sequence of <<key, value>>.
AsDict(object) == [i \in 1..Len(object[2]) |-> <<object[2][i][1], object[2][i][2][2]>>]

\* Does a value of the dict hold a brace, the delimiter that the stored
\* form drops and the reconstruction puts back?
HasDelimiter(d) == \E i \in 1..Len(d) : InList("{", d[i][2]) \/ InList("}", d[i][2])

\* C15: the ingredients object of a hit equals the ingredients map the
\* document was inserted with, key for key and value for value, when no
\* value of the map holds the delimiter; the empty map comes back empty.
C15_IngredientsRoundTrip ==
    (resp.op = "search" /\ resp.status = 200) =>
        \A h \in 1..Len(resp.hits) :
            \A recipe \in SourcesOf(resp.hits[h]) :
                ~HasDelimiter(recipe.ingredients)
                    => AsDict(resp.hits[h].ingredients) = recipe.ingredients

\* A search that returned a document inserted with a map of one entry and
\* a document inserted with the empty map.
C15_Witness ==
    /\ resp.op = "search" /\ resp.status = 200
    /\ Len(resp.hits) = 2
    /\ RecipeA \in SourcesOf(resp.hits[1])
    /\ resp.hits[1].ingredients[2] # <<>>
    /\ RecipeA2 \in SourcesOf(resp.hits[2])
    /\ resp.hits[2].ingredients[2] = <<>>

\* C16: the questions field of every hit is a JSON object, equal to the
\* questions map the document was inserted with, and not the flattened
\* text that is stored.
C16_QuestionsStructured ==
    (resp.op = "search" /\ resp.status = 200) =>
        \A h \in 1..Len(resp.hits) :
            \A recipe \in SourcesOf(resp.hits[h]) :
                /\ resp.hits[h].questions[1] = "obj"
                /\ AsDict(resp.hits[h].questions) = recipe.questions

\* Did the index rank nearest to the query of the search a document that
\* was inserted under the foodname the query is?
NearestIsNamed ==
    \E recipe \in RecipeInputs :
        /\ recipe.foodname = resp.req.query
        /\ process_recipe_to_document(recipe) = DocById(resp.candidates[1])

\* C17: after a successful /insert, a search at once for the exact foodname
\* of the first recipe of the batch with limit 1 returns exactly one item,
\* and its foodname is that foodname. It is stated for the searches in which
\* no call fails and, when the name is not blank, the index ranks nearest a
\* document inserted under that foodname.
C17_InsertedNameIsTopHit ==
    [][(/\ resp.op = "insert" /\ resp.status = 200
        /\ resp'.op = "search" /\ resp'.req.fault = "none" /\ resp'.req.limit = 1
        /\ resp'.req.query = resp.req.recipes[1].foodname
        /\ Strip(resp'.req.query) # <<>> => NearestIsNamed')
        => (/\ resp'.status = 200
            /\ Len(resp'.hits) = 1
            /\ resp'.hits[1].foodname = resp.req.recipes[1].foodname)]_vars

----------------------------------------------------------------------------
\* Further properties of the adapter, under SpecAdapter.

\* The row of an identifier.
RowById(id) == CHOOSE r \in db : r.id = id

\* C18: every recipe in an answer of semantic_search is public, on the
\* relational path, the vector path and the path of the except branch; a
\* recipe that is not public is not returned even when its title is the
\* foodname of a hit.
C18_OnlyPublicReturned ==
    (view.op = "semantic_search" /\ view.status = 200) =>
        \A i \in 1..Len(view.ids) :
            /\ \E r \in db : r.id = view.ids[i]
            /\ RowById(view.ids[i]).is_public

\* A vector answer with a recipe in it, given for a hit whose foodname is
\* also the title of a recipe that is not public.
C18_Witness ==
    /\ view.op = "semantic_search" /\ view.path = "vector"
    /\ view.ids # <<>>
    /\ \E p \in 1..Len(view.service.hits) :
          \E r \in db :
             /\ ~r.is_public
             /\ view.service.hits[p].foodname = r.title
             /\ RowById(view.ids[1]).title = r.title

\* C19: when ingredient names are supplied and the answer comes from the
\* relational store (vector search off, blank query, or the except branch),
\* every returned recipe has an ingredient whose name is among them.
C19_FallbackKeepsIngredientFilter ==
    (/\ view.op = "semantic_search" /\ view.status = 200
     /\ view.path \in {"relational", "except"}
     /\ view.req.ingredients # <<>>)
        => \A i \in 1..Len(view.ids) :
              \E n \in RowById(view.ids[i]).ingredients : InList(n, view.req.ingredients)

\* C20: every semantic_search request is answered, also when the Search
\* Service accepts the connection and never replies: the call is given up
\* at the timeout and the view completes the request.
C20_RequestIsAnswered ==
    (view.op \in {"received", "waiting"}) ~> (view.op = "semantic_search")

\* An answered request whose call was given up: the Search Service still
\* has not replied.
C20_Witness ==
    /\ view.op = "semantic_search"
    /\ view.path = "vector"
    /\ ~view.service.ok
    /\ resp = Pending

----------------------------------------------------------------------------
\* Properties of RecipeViewSet.rate, under SpecRate.

\* C21: once every rate request on the recipe has completed, whatever the
\* interleaving of the requests of different users, there is at most one
\* rating for each user, ratings_count is the number of ratings and
\* average_rating is their mean.
C21_RatingTotalsAgree ==
    (\A u \in Users : view[u].pc \in {"none", "done"}) =>
        /\ \A r, q \in db.ratings : r.user = q.user => r = q
        /\ db.ratings_count = Cardinality(db.ratings)
        /\ db.average_rating = AvgHundredths(db.ratings)

----------------------------------------------------------------------------
\* Properties of the viewing history, under SpecHistory.

\* C22: for an authenticated user and an existing recipe, an add to the
\* history succeeds after any retrievals and adds by that user: 201 when
\* the user had no entry for the recipe, 200 when one existed.
C22_HistoryAddSucceeds ==
    view.op = "add" => view.status = (IF view.existed = 0 THEN 201 ELSE 200)

----------------------------------------------------------------------------
\* Properties of the sync command, under SpecSync.

\* C23: a run of the command with --dry-run leaves the relational database
\* as it was: no user, recipe, ingredient or recipe-ingredient row is
\* created, updated or deleted and the schema is not changed, for either
\* source.
C23_DryRunLeavesDatabase ==
    [][(view = Idle /\ view'.op = "sync" /\ view'.dry_run) => db' = db]_vars

----------------------------------------------------------------------------
\* Properties of concurrent inserts, under SpecInsert.

\* Where the identifier id is stored in the index.
PositionsOf(id) == {p \in 1..Len(index) : index[p].id = id}

\* C24: once two concurrent /insert batches have both succeeded, the index
\* holds every document of both, each under its own identifier: no
\* document of one batch overwrites, replaces or shares an identifier with
\* a document of the other or of its own batch, in any interleaving.
C24_ConcurrentBatchesBothStored ==
    (\A q \in Requests : view[q].pc = "done" /\ view[q].status = 200)
    => /\ \A q \in Requests : \A i \in 1..Len(view[q].documents) :
             /\ Cardinality(PositionsOf(view[q].ids[i])) = 1
             /\ \A p \in PositionsOf(view[q].ids[i]) :
                   index[p].doc = view[q].documents[i]
       /\ \A q, r \in Requests :
             \A i \in 1..Len(view[q].documents), j \in 1..Len(view[r].documents) :
                view[q].ids[i] = view[r].ids[j] => (q = r /\ i = j)

\* Two batches of two whose writes alternated: the index holds the four
\* documents, the first batch's at positions 1 and 3.
C24_Witness ==
    /\ \A q \in Requests : view[q].pc = "done" /\ view[q].status = 200
    /\ Len(index) = 4
    /\ index[1].id = view[1].ids[1] /\ index[2].id = view[2].ids[1]
    /\ index[3].id = view[1].ids[2] /\ index[4].id = view[2].ids[2]

----------------------------------------------------------------------------
\* Properties of the stored documents, under Spec.

\* C25: across any sequence of /insert and /search calls the stored
\* documents only grow: every document stored before a step is stored
\* after it, unchanged and at the same place, and a /search leaves the
\* index exactly as it was.
C25_StoredDocumentsOnlyGrow ==
    [][/\ Len(index') >= Len(index)
       /\ SubSeq(index', 1, Len(index)) = index
       /\ (resp'.op = "search" => index' = index)]_vars

\* A search answered after an insert added a document to a stored one.
C25_Witness ==
    /\ resp.op = "search" /\ resp.status = 200
    /\ Len(index) = 2
    /\ index[1].doc \in {BadJsonDoc, NoIngredientsDoc}
    /\ index[2].doc = process_recipe_to_document(RecipeA)

----------------------------------------------------------------------------
\* Properties of the pool of candidates, under SpecPool.

\* Does the stored document at position p hold every requested ingredient?
PassesFilter(p, include) ==
    ~Truthy(include)
    \/ AllIn(include, CanonicalList(Get(index[p].doc.metadata.canonical, <<>>)))

\* The positions 1..n of the index that pass the filter, in order.
PassingWithin(n, include) ==
    SelectSeq([p \in 1..n |-> p], LAMBDA p : PassesFilter(p, include))

\* C26: for a query that is not blank, /search asks the index for exactly
\* limit*10 nearest neighbours, and a 200 response lists the first `limit`
\* documents among those candidates that pass the ingredient filter; a
\* document that passes the filter but ranks beyond position limit*10 is
\* never returned, even when fewer than `limit` hits are returned.
C26_HitsComeFromThePool ==
    (resp.op = "search" /\ resp.status = 200 /\ Strip(resp.req.query) # <<>>)
    => LET pool == IF resp.req.limit * 10 < Len(index)
                   THEN resp.req.limit * 10 ELSE Len(index)
           passing == PassingWithin(pool, resp.req.include)
           shown == IF resp.req.limit < Len(passing)
                    THEN resp.req.limit ELSE Len(passing)
       IN  /\ resp.candidates = [p \in 1..pool |-> index[p].id]
           /\ HitIds = [i \in 1..shown |-> index[passing[i]].id]
           /\ \A i \in 1..Len(resp.hits) :
                 \E p \in 1..pool : index[p].id = resp.hits[i].id

\* The only document holding the ingredient ranks eleventh, one place
\* beyond the pool of a search with limit 1: the response is empty.
C26_Witness ==
    /\ resp.op = "search" /\ resp.status = 200
    /\ resp.req.limit = 1 /\ Truthy(resp.req.include)
    /\ Len(index) >= 11
    /\ PassesFilter(11, resp.req.include)
    /\ \A p \in 1..10 : ~PassesFilter(p, resp.req.include)
    /\ resp.hits = <<>>

----------------------------------------------------------------------------
\* Properties of the stored metadata, under Spec.

\* The text of a JSON object without its braces.
InnerJson(object) == RemoveSuffix(RemovePrefix(JsonDumps(object), <<"{">>), <<"}">>)

\* Is the metadata m the flat record of the recipe r?
FlatMetadata(m, r) ==
    /\ DOMAIN m = {"foodname", "calory", "index", "images", "canonical",
                   "taken_time", "detailed_ingredients", "questions"}
    /\ m.foodname = r.foodname
    /\ m.index = r.index
    /\ m.detailed_ingredients = InnerJson(r.ingredients)
    /\ m.questions = InnerJson(r.questions)
    /\ m.canonical = Join(r.canonical, <<",">>)
    /\ m.images = Join(r.images, <<"|", "|">>)
    /\ m.taken_time = (IF r.taken_time = <<>> THEN <<>> ELSE r.taken_time[1])
    /\ m.calory = (IF r.calory = None \/ r.calory = <<>> THEN Unknown ELSE r.calory)

\* C27: every document a successful /insert stores has a metadata record
\* of scalars only: ingredients, questions, canonical and images as flat
\* strings, taken_time as its first element or the empty string, calory
\* as given or "Unknown" when it is empty.
C27_StoredMetadataIsFlat ==
    [][(resp = Idle /\ resp'.op = "insert" /\ resp'.status = 200)
        => \A i \in 1..Len(resp'.req.recipes) :
              FlatMetadata(index'[Len(index) + i].doc.metadata, resp'.req.recipes[i])]_vars

\* A batch of a recipe with two times and two images and one without
\* calory has been stored.
C27_Witness ==
    /\ resp.op = "insert" /\ resp.status = 200
    /\ resp.req.recipes = <<RecipeC, RecipeA2>>
    /\ index[1].doc.metadata.taken_time = <<"a">>
    /\ index[1].doc.metadata.images = <<"a", "|", "|", "c">>
    /\ index[2].doc.metadata.calory = Unknown

----------------------------------------------------------------------------
\* Properties of the answers of the adapter, under SpecAdapter.

\* C28: an answer of semantic_search never lists the same recipe twice,
\* also when several hits of the Search Service resolve to the same
\* recipe.
C28_NoRecipeTwice ==
    (view.op = "semantic_search" /\ view.status = 200) =>
        \A i, j \in 1..Len(view.ids) : view.ids[i] = view.ids[j] => i = j

----------------------------------------------------------------------------
\* Properties of the two filtering passes of search_recipes, under Spec.

\* The candidates of the answer as the index returned them.
CandidateResults ==
    [i \in 1..Len(resp.candidates) |->
        [id |-> resp.candidates[i],
         doc |-> (CHOOSE e \in {index[p] : p \in 1..Len(index)} :
                     e.id = resp.candidates[i]).doc]]

\* C29: the two filtering passes of search_recipes agree: the response
\* lists exactly the documents of filtered_results (the first pass, with
\* has_all_ingredients, cut to limit), in the same order and number.
C29_PassesAgree ==
    (resp.op = "search" /\ resp.status = 200) =>
        LET filtered_results ==
                FilteredResults(CandidateResults, resp.req.include, resp.req.limit)
        IN  HitIds = [i \in 1..Len(filtered_results) |-> filtered_results[i].id]

----------------------------------------------------------------------------
\* Properties of the ingestion script, under SpecIngest.

\* The records of the bodies received, in the order received.
RECURSIVE Flatten(_)
Flatten(bodies) == IF bodies = <<>> THEN <<>> ELSE Head(bodies) \o Flatten(Tail(bodies))

\* C30: when every POST to /insert succeeds, the script terminates having
\* sent every record of the file exactly once, in batches of two in file
\* order, whatever the number of records, odd or even.
C30_EveryRecordSent ==
    <>(/\ view.pc = "done"
       /\ (view.failed
            \/ (/\ Flatten(index) = db
                /\ \A b \in 1..Len(index) : Len(index[b]) <= 2)))

====
